---- MODULE Spec2Model ----
(***************************************************************************)
(* Model of the tile acquisition engine of tile_downloader.py:             *)
(* download_region (scheduler), download_tile_multi_server (fallback       *)
(* resolver), download_tile_from_server (fetch client + tile store), the    *)
(* transport retry strategy mounted by create_session, and the tile        *)
(* geometry of deg2num and get_tiles_for_bbox.                             *)
(***************************************************************************)
EXTENDS Integers, Sequences, FiniteSets, TLC

\* ---------------------------------------------------------------- bounds
NumTiles == 2
MaxRetryAttempts == 2
MaxConfigLen == 2
MaxWorkersPerServer == 1
MaxRuns == 2
MaxZoom == 2
MaxCalls == 2

\* ------------------------------------------------------ program constants
\* Retry(total=3, ...) in create_session
RetryTotal == 3

\* the sleeps of the retry loop, in tenths of a second: time.sleep(1.0)
\* after a failed attempt, time.sleep(0.5 * attempt) before the next one
SleepAfterError == 10
SleepPerAttempt == 5

\* TILE_SERVERS: the code-defined catalog, in catalog order
TILE_SERVERS == <<"CartoDB Light", "CartoDB Dark", "Stamen Terrain", "Stamen Watercolor">>

\* status_forcelist of the transport retry strategy
status_forcelist == {429, 500, 502, 503, 504}

\* ------------------------------------------------------------ environment
\* a name a configuration may list although the catalog does not have it
UnlistedName == "Unlisted"

\* what one HTTP GET can come back with: a status code, or 0 for a
\* connection-level failure (refused, reset, timeout)
ConnFailure == 0
Responses == {200, 404, 503, ConnFailure}

Tiles == 1..NumTiles

RangeOf(seq) == {seq[i] : i \in 1..Len(seq)}

CatalogNames == RangeOf(TILE_SERVERS)

\* configurations' `servers` lists: duplicate-free lists of names
ConfigNames == {TILE_SERVERS[1], TILE_SERVERS[2], UnlistedName}
ServerLists ==
    {l \in UNION {[1..n -> ConfigNames] : n \in 0..MaxConfigLen} :
        \A i, k \in 1..Len(l) : i # k => l[i] # l[k]}

\* retry_attempts values of the configurations the pool is explored with
PoolRetryAttempts == {0, 1}

\* how a server answers during the runs: anything; never a 2xx; only
\* retryable answers (overloaded or unreachable); always 200
NetProfiles == {"any", "down", "busy", "up"}
RespOf(p) ==
    IF p = "up" THEN {200}
    ELSE IF p = "down" THEN {r \in Responses : r # 200}
    ELSE IF p = "busy" THEN {503, ConnFailure}
    ELSE Responses

\* whether local directory creation and file writes can fail
DiskOutcomes(d) == IF d = "flaky" THEN BOOLEAN ELSE {TRUE}

FirstThenUp(p) == [s \in CatalogNames |-> IF s = TILE_SERVERS[1] THEN p ELSE "up"]

\* the environments the runs are explored in
Hostile == [net |-> [s \in CatalogNames |-> "any"], disk |-> "flaky"]
Fallback == [net |-> FirstThenUp("down"), disk |-> "ok"]
Outage == [net |-> FirstThenUp("busy"), disk |-> "ok"]
Healthy == [net |-> FirstThenUp("up"), disk |-> "ok"]
Environments == {Hostile, Fallback, Outage, Healthy}

\* --------------------------------------------------------- tile geometry
\* longitudes and latitudes (whole degrees) the bounding boxes are drawn
\* from; every latitude is inside the Web-Mercator range
Lons == {-180, -90, 0, 51, 180}
Lats == {-85, -60, 0, 25, 85}

\* (1.0 - asinh(tan(lat_rad)) / pi) / 2.0 in units of 1/MercScale, rounded
\* down: the fraction of the map's height that lies north of lat_deg
MercScale == 2^20
MercY(lat_deg) ==
    CASE lat_deg = -85 -> 1046858
      [] lat_deg = -60 -> 744069
      [] lat_deg = 0 -> 524288
      [] lat_deg = 25 -> 449043
      [] lat_deg = 85 -> 1717

\* int(a / b): truncation toward zero
Trunc(a, b) == IF a >= 0 THEN a \div b ELSE -((-a) \div b)

\* deg2num: <<xtile, ytile>>, unclamped
deg2num(lat_deg, lon_deg, zoom) ==
    <<Trunc((lon_deg + 180) * 2^zoom, 360),
      Trunc(MercY(lat_deg) * 2^zoom, MercScale)>>

\* a tile tuple that loses its zoom level
TileAtZoomless(zoom, x, y) == <<0, x, y>>

\* the tuple appended for one tile
TileAt(zoom, x, y) == <<zoom, x, y>>

\* for y in range(y, max_y + 1): tiles.append((zoom, x, y))
RECURSIVE YLoop(_, _, _, _)
YLoop(zoom, x, y, max_y) ==
    IF y > max_y THEN <<>>
    ELSE <<TileAt(zoom, x, y)>> \o YLoop(zoom, x, y + 1, max_y)

\* for x in range(x, max_x + 1): the inner loop over y
RECURSIVE XLoop(_, _, _, _, _)
XLoop(zoom, x, max_x, min_y, max_y) ==
    IF x > max_x THEN <<>>
    ELSE YLoop(zoom, x, min_y, max_y) \o XLoop(zoom, x + 1, max_x, min_y, max_y)

\* for zoom in range(zoom, max_zoom + 1): the two deg2num calls and the
\* loops over x and y; bbox is <<min_lon, min_lat, max_lon, max_lat>>
RECURSIVE ZoomLoop(_, _, _)
ZoomLoop(bbox, zoom, max_zoom) ==
    IF zoom > max_zoom THEN <<>>
    ELSE LET lo == deg2num(bbox[2], bbox[1], zoom)
             hi == deg2num(bbox[4], bbox[3], zoom)
         IN XLoop(zoom, lo[1], hi[1], hi[2], lo[2]) \o ZoomLoop(bbox, zoom + 1, max_zoom)

\* a zoom loop over range(min_zoom, max_zoom), the last level left out
get_tiles_half_open(bbox, min_zoom, max_zoom) == ZoomLoop(bbox, min_zoom, max_zoom - 1)

get_tiles_for_bbox(bbox, min_zoom, max_zoom) == ZoomLoop(bbox, min_zoom, max_zoom)

\* regions of a configuration: well-formed bounding boxes, any zoom range
Regions ==
    {r \in [bbox : Lons \X Lats \X Lons \X Lats,
             min_zoom : 0..MaxZoom, max_zoom : 0..MaxZoom] :
        r.bbox[1] <= r.bbox[3] /\ r.bbox[2] <= r.bbox[4]}

\* the region the pool is explored with: one point, n zoom levels, hence
\* n tiles
PoolRegion(n) ==
    [bbox |-> <<-180, 85, -180, 85>>, min_zoom |-> 0, max_zoom |-> n - 1]

\* no projection requested yet
NoProj == [lat |-> 0, lon |-> 0, zoom |-> -1, x |-> 0, y |-> 0]

VARIABLES
    region,       \* the region being downloaded: bbox, min_zoom, max_zoom
    all_tiles,    \* the tile list get_tiles_for_bbox returned
    calls,        \* number of get_tiles_for_bbox calls made for the region
    proj,         \* the last deg2num call: arguments and result
    config,       \* the loaded configuration (read-only during runs)
    env,          \* the environment: servers' behaviour and the disk's
    meter,        \* whether the GETs of each fetch invocation are counted
    fs,           \* fs[s][c]: state of {output_dir}/{s}/{zoom}/{x}/{y}.png, c = <<zoom, x, y>>
    job,          \* job[t]: the future / worker job of all_tiles[t]
    mainpc,       \* position of the main thread in download_region
    exc,          \* exception propagating in the main thread
    interrupted,  \* a KeyboardInterrupt was delivered in this run
    completed,    \* the completion counter of download_region
    consumed,     \* futures already yielded by as_completed
    nsub,         \* number of tiles submitted to the executor
    run,          \* ordinal of the current run over the same output_dir
    prev          \* prev[t]: result of tile t in the previous run

mapvars == <<region, all_tiles, calls, proj>>

vars == <<region, all_tiles, calls, proj, config, env, meter, fs, job, mainpc, exc, interrupted, completed, consumed, nsub, run, prev>>

\* --------------------------------------------------------------- results
NoResult == [kind |-> "None", server |-> "", err |-> "none"]

\* f"Exists: {server}/{zoom}/{x}/{y}"
ExistsResult(s) == [kind |-> "Exists", server |-> s, err |-> "none"]

\* f"Downloaded: {server}/{zoom}/{x}/{y}"
DownloadedResult(s) == [kind |-> "Downloaded", server |-> s, err |-> "none"]

\* f"Error: {server}/{zoom}/{x}/{y} - {e}"
ErrorResult(s, e) == [kind |-> "Error", server |-> s, err |-> e]

\* f"All servers failed: {zoom}/{x}/{y}"
AllFailedResult == [kind |-> "AllFailed", server |-> "", err |-> "none"]

\* ------------------------------------------------------- pure operators
\* [s for s in TILE_SERVERS if s['name'] in config['servers']]
enabled_servers(cfg) == SelectSeq(TILE_SERVERS, LAMBDA s : s \in RangeOf(cfg.servers))

\* len(config['servers']) * config['max_workers_per_server']
total_workers(cfg) == Len(cfg.servers) * cfg.max_workers_per_server

\* the transport retries a response: forcelist status or connection failure
Retryable(r) == r = ConnFailure \/ r \in status_forcelist

\* response.raise_for_status()
raise_for_status(r) == r >= 400 /\ r < 600

\* the exception an attempt ends with on answer r: RetryError or
\* ConnectionError (transient), HTTPError of raise_for_status (permanent)
ErrClass(r) ==
    IF Retryable(r) THEN "transient"
    ELSE IF raise_for_status(r) THEN "permanent" ELSE "none"

\* os.path.exists(tile_filename)
exists(f, s, t) == f[s][t] # "none"

\* a success test that recognises only "Exists:"
IsSuccessExistsOnly(result) == result.kind = "Exists"

\* a success test that recognises only "Downloaded:"
IsSuccessDownloadedOnly(result) == result.kind = "Downloaded"

\* "Downloaded:" in result or "Exists:" in result
IsSuccess(result) == result.kind \in {"Downloaded", "Exists"}

\* session.get through the adapter of create_session: <<k, r>> is k GETs
\* issued, the first k-1 answered retryably, the last answered r; the
\* transport stops at the first non-retryable answer or after RetryTotal
\* retries
session_get(p) ==
    {o \in (1..(RetryTotal + 1)) \X RespOf(p) :
        /\ o[1] > 1 => \E q \in RespOf(p) : Retryable(q)
        /\ o[1] < RetryTotal + 1 => ~Retryable(o[2])}

NewJob ==
    [pc |-> "unsubmitted", si |-> 1, attempt |-> 0, reqs |-> 0, slept |-> 0,
     lastErr |-> "none", result |-> NoResult, contacted |-> <<>>]

CurServer(j) == enabled_servers(config)[j.si]

\* a resolver that hands back the last server's error when all failed
ReturnFromServerLastError(j, result) ==
    IF IsSuccess(result)
    THEN [j EXCEPT !.pc = "done", !.result = result]
    ELSE IF j.si < Len(enabled_servers(config))
         THEN [j EXCEPT !.pc = "enter", !.si = j.si + 1]
         ELSE [j EXCEPT !.pc = "done", !.result = result]

\* download_tile_multi_server, after download_tile_from_server returned
ReturnFromServer(j, result) ==
    IF IsSuccess(result)
    THEN [j EXCEPT !.pc = "done", !.result = result]
    ELSE IF j.si < Len(enabled_servers(config))
         THEN [j EXCEPT !.pc = "enter", !.si = j.si + 1]
         ELSE [j EXCEPT !.pc = "done", !.result = AllFailedResult]

\* an except clause that gives up one attempt late
HandleErrorOneLate(j, e) ==
    IF j.attempt = config.retry_attempts
    THEN ReturnFromServer(j, ErrorResult(CurServer(j), e))
    ELSE [j EXCEPT !.pc = "get", !.attempt = j.attempt + 1, !.lastErr = e,
                   !.slept = SleepAfterError]

\* an except clause that retries without sleeping
HandleErrorNoSleep(j, e) ==
    IF j.attempt = config.retry_attempts - 1
    THEN ReturnFromServer(j, ErrorResult(CurServer(j), e))
    ELSE [j EXCEPT !.pc = "get", !.attempt = j.attempt + 1, !.lastErr = e]

\* the except clause of the retry loop
HandleError(j, e) ==
    IF j.attempt = config.retry_attempts - 1
    THEN ReturnFromServer(j, ErrorResult(CurServer(j), e))
    ELSE [j EXCEPT !.pc = "get", !.attempt = j.attempt + 1, !.lastErr = e,
                   !.slept = SleepAfterError]

Finished(j) == j.pc \in {"done", "raised"}
Running(j) == j.pc \in {"enter", "get", "open", "write"}
RunningCount == Cardinality({t \in Tiles : Running(job[t])})

\* ------------------------------------------------------------------ Init
Start0 ==
    /\ config \in [servers : ServerLists,
                   retry_attempts : 0..MaxRetryAttempts,
                   max_workers_per_server : {MaxWorkersPerServer},
                   total_tiles : 1..NumTiles]
    /\ env \in Environments
    /\ meter \in BOOLEAN
    /\ region = PoolRegion(config.total_tiles)
    /\ all_tiles = get_tiles_for_bbox(region.bbox, region.min_zoom, region.max_zoom)
    /\ calls = 1
    /\ proj = NoProj
    /\ fs = [s \in CatalogNames |-> [c \in RangeOf(all_tiles) |-> "none"]]
    /\ job = [t \in Tiles |-> NewJob]
    /\ mainpc = "start"
    /\ exc = "none"
    /\ interrupted = FALSE
    /\ completed = 0
    /\ consumed = {}
    /\ nsub = 0
    /\ run = 1
    /\ prev = [t \in Tiles |-> NoResult]

\* the scheduler with its pool, over regions of up to NumTiles tiles; the
\* fetch invocations are kept to a single attempt here, the retry loop is
\* explored under InitFetch
Init == Start0 /\ ~meter /\ config.retry_attempts \in PoolRetryAttempts

\* one tile's job, its requests counted
InitFetch == Start0 /\ meter /\ config.total_tiles = 1

\* repeated runs over one output directory
InitRerun == Start0 /\ ~meter /\ config.total_tiles = 1

\* ------------------------------------------------------- main thread
\* ThreadPoolExecutor(max_workers=total_workers): ValueError unless > 0
CreatePool ==
    /\ mainpc = "start"
    /\ IF total_workers(config) <= 0
       THEN mainpc' = "done" /\ exc' = "ValueError"
       ELSE mainpc' = "submit" /\ exc' = exc
    /\ UNCHANGED <<region, all_tiles, calls, proj, config, env, meter, fs, job, interrupted, completed, consumed, nsub, run, prev>>

\* one executor.submit of the list comprehension, in enumeration order
Submit ==
    /\ mainpc = "submit"
    /\ nsub < config.total_tiles
    /\ job' = [job EXCEPT ![nsub + 1].pc = "queued"]
    /\ nsub' = nsub + 1
    /\ mainpc' = IF nsub + 1 = config.total_tiles THEN "collect" ELSE "submit"
    /\ UNCHANGED <<region, all_tiles, calls, proj, config, env, meter, fs, exc, interrupted, completed, consumed, run, prev>>

\* one iteration of `for future in as_completed(futures)`
Collect(t) ==
    /\ mainpc = "collect"
    /\ t \notin consumed
    /\ Finished(job[t])
    /\ completed' = completed + 1
    /\ consumed' = consumed \cup {t}
    /\ IF job[t].pc = "raised"
       THEN mainpc' = "shutdown" /\ exc' = "Exception"
       ELSE /\ mainpc' = IF completed + 1 = config.total_tiles THEN "shutdown" ELSE "collect"
            /\ exc' = exc
    /\ UNCHANGED <<region, all_tiles, calls, proj, config, env, meter, fs, job, interrupted, nsub, run, prev>>

\* KeyboardInterrupt raised in the main thread inside the with block
Interrupt ==
    /\ mainpc \in {"submit", "collect"}
    /\ interrupted' = TRUE
    /\ exc' = "KeyboardInterrupt"
    /\ mainpc' = "shutdown"
    /\ UNCHANGED <<region, all_tiles, calls, proj, config, env, meter, fs, job, completed, consumed, nsub, run, prev>>

\* executor.__exit__: shutdown(wait=True) returns once the pool drained
Shutdown ==
    /\ mainpc = "shutdown"
    /\ \A t \in Tiles : job[t].pc \in {"unsubmitted", "done", "raised"}
    /\ mainpc' = "done"
    /\ UNCHANGED <<region, all_tiles, calls, proj, config, env, meter, fs, job, exc, interrupted, completed, consumed, nsub, run, prev>>

\* the program is run again with the same configuration and output_dir
NextRun ==
    /\ mainpc = "done"
    /\ run < MaxRuns
    /\ run' = run + 1
    /\ prev' = [t \in Tiles |-> job[t].result]
    /\ job' = [t \in Tiles |-> NewJob]
    /\ mainpc' = "start"
    /\ exc' = "none"
    /\ interrupted' = FALSE
    /\ completed' = 0
    /\ consumed' = {}
    /\ nsub' = 0
    /\ UNCHANGED <<region, all_tiles, calls, proj, config, env, meter, fs>>

\* ----------------------------------------------------------- worker jobs
\* a pool thread takes the oldest queued work item
Start(t) ==
    /\ job[t].pc = "queued"
    /\ \A u \in Tiles : u < t => job[u].pc # "queued"
    /\ RunningCount < total_workers(config)
    /\ job' = [job EXCEPT ![t] =
                 IF Len(enabled_servers(config)) = 0
                 THEN [@ EXCEPT !.pc = "done", !.result = AllFailedResult]
                 ELSE [@ EXCEPT !.pc = "enter", !.si = 1]]
    /\ UNCHANGED <<region, all_tiles, calls, proj, config, env, meter, fs, mainpc, exc, interrupted, completed, consumed, nsub, run, prev>>

\* os.makedirs(tile_path, exist_ok=True): nothing to create, and nothing
\* to fail, when the directory already holds the tile's file
MakedirsOutcomes(s, c) == IF exists(fs, s, c) THEN {TRUE} ELSE DiskOutcomes(env.disk)

\* download_tile_from_server up to the retry loop: makedirs, exists check
EnterServer(t) ==
    /\ job[t].pc = "enter"
    /\ LET j == job[t]
           s == CurServer(j)
           j0 == [j EXCEPT !.attempt = 0, !.reqs = 0, !.slept = 0]
       IN \E mkdirOk \in MakedirsOutcomes(s, all_tiles[t]) :
            job' = [job EXCEPT ![t] =
               IF ~mkdirOk
               THEN [j0 EXCEPT !.pc = "raised"]
               ELSE IF exists(fs, s, all_tiles[t])
               THEN ReturnFromServer(j0, ExistsResult(s))
               ELSE IF config.retry_attempts <= 0
               THEN [j0 EXCEPT !.pc = "raised"]
               ELSE [j0 EXCEPT !.pc = "get"]]
    /\ UNCHANGED <<region, all_tiles, calls, proj, config, env, meter, fs, mainpc, exc, interrupted, completed, consumed, nsub, run, prev>>

\* session.get(...) and response.raise_for_status() of one attempt
HttpGet(t) ==
    /\ job[t].pc = "get"
    /\ LET j == job[t]
           s == CurServer(j)
       IN \E o \in session_get(env.net[s]) :
            LET j1 == [j EXCEPT !.reqs = IF meter THEN @ + o[1] ELSE @,
                                !.contacted = IF s \in RangeOf(@) THEN @ ELSE Append(@, s),
                                !.slept = IF j.attempt > 0
                                          THEN @ + SleepPerAttempt * j.attempt ELSE @,
                                !.lastErr = "none"]
            IN job' = [job EXCEPT ![t] =
                 IF Retryable(o[2]) \/ raise_for_status(o[2])
                 THEN HandleError(j1, ErrClass(o[2]))
                 ELSE [j1 EXCEPT !.pc = "open"]]
    /\ UNCHANGED <<region, all_tiles, calls, proj, config, env, meter, fs, mainpc, exc, interrupted, completed, consumed, nsub, run, prev>>

\* open(tile_filename, 'wb'): creates or truncates the file
OpenFile(t) ==
    /\ job[t].pc = "open"
    /\ LET j == job[t]
           s == CurServer(j)
       IN \E ok \in DiskOutcomes(env.disk) :
            IF ok
            THEN /\ fs' = [fs EXCEPT ![s][all_tiles[t]] = "partial"]
                 /\ job' = [job EXCEPT ![t].pc = "write"]
            ELSE /\ fs' = fs
                 /\ job' = [job EXCEPT ![t] = HandleError(j, "io")]
    /\ UNCHANGED <<region, all_tiles, calls, proj, config, env, meter, mainpc, exc, interrupted, completed, consumed, nsub, run, prev>>

\* f.write(response.content) and the close of the with block
WriteFile(t) ==
    /\ job[t].pc = "write"
    /\ LET j == job[t]
           s == CurServer(j)
       IN \E ok \in DiskOutcomes(env.disk) :
            IF ok
            THEN /\ fs' = [fs EXCEPT ![s][all_tiles[t]] = "full"]
                 /\ job' = [job EXCEPT ![t] = ReturnFromServer(j, DownloadedResult(s))]
            ELSE /\ fs' = fs
                 /\ job' = [job EXCEPT ![t] = HandleError(j, "io")]
    /\ UNCHANGED <<region, all_tiles, calls, proj, config, env, meter, mainpc, exc, interrupted, completed, consumed, nsub, run, prev>>

Next ==
    \/ CreatePool
    \/ Submit
    \/ \E t \in Tiles : Collect(t)
    \/ Interrupt
    \/ Shutdown
    \/ \E t \in Tiles : Start(t)
    \/ \E t \in Tiles : EnterServer(t)
    \/ \E t \in Tiles : HttpGet(t)
    \/ \E t \in Tiles : OpenFile(t)
    \/ \E t \in Tiles : WriteFile(t)

Spec == Init /\ [][Next]_vars

SpecFetch == InitFetch /\ [][Next]_vars

NextRerun == Next \/ NextRun

SpecRerun == InitRerun /\ [][NextRerun]_vars

\* the steps of Next the program takes by itself; the interrupt is the
\* user's
Progress ==
    \/ CreatePool
    \/ Submit
    \/ \E t \in Tiles : Collect(t)
    \/ Shutdown
    \/ \E t \in Tiles : Start(t)
    \/ \E t \in Tiles : EnterServer(t)
    \/ \E t \in Tiles : HttpGet(t)
    \/ \E t \in Tiles : OpenFile(t)
    \/ \E t \in Tiles : WriteFile(t)

\* the pool under the schedulers' fairness: a thread that can take a step
\* eventually takes one, and every request returns
SpecLive == Init /\ [][Next]_vars /\ WF_vars(Progress)

\* ------------------------------------------------- tile geometry on its own
poolvars == <<config, env, meter, fs, job, mainpc, exc, interrupted, completed, consumed, nsub, run, prev>>

\* download_region before the tile list is calculated, for any region
InitTiles ==
    /\ region \in Regions
    /\ all_tiles = <<>>
    /\ calls = 0
    /\ proj = NoProj
    /\ config = [servers |-> <<>>, retry_attempts |-> 0,
                 max_workers_per_server |-> MaxWorkersPerServer, total_tiles |-> 0]
    /\ env = Healthy
    /\ meter = FALSE
    /\ fs = [s \in CatalogNames |-> <<>>]
    /\ job = [t \in Tiles |-> NewJob]
    /\ mainpc = "start"
    /\ exc = "none"
    /\ interrupted = FALSE
    /\ completed = 0
    /\ consumed = {}
    /\ nsub = 0
    /\ run = 1
    /\ prev = [t \in Tiles |-> NoResult]

\* all_tiles = get_tiles_for_bbox(bbox, min_zoom, max_zoom)
GetTilesForBbox ==
    /\ calls < MaxCalls
    /\ all_tiles' = get_tiles_for_bbox(region.bbox, region.min_zoom, region.max_zoom)
    /\ calls' = calls + 1
    /\ UNCHANGED <<region, proj, poolvars>>

\* one deg2num call on a corner of the bounding box: the south-west corner
\* <<min_lat, min_lon>> or the north-east corner <<max_lat, max_lon>>
Deg2Num(ne, zoom) ==
    /\ LET lat == IF ne THEN region.bbox[4] ELSE region.bbox[2]
           lon == IF ne THEN region.bbox[3] ELSE region.bbox[1]
           xy == deg2num(lat, lon, zoom)
       IN proj' = [lat |-> lat, lon |-> lon, zoom |-> zoom, x |-> xy[1], y |-> xy[2]]
    /\ UNCHANGED <<region, all_tiles, calls, poolvars>>

NextTiles ==
    \/ GetTilesForBbox
    \/ \E ne \in BOOLEAN : \E zoom \in 0..MaxZoom : Deg2Num(ne, zoom)

SpecTiles == InitTiles /\ [][NextTiles]_vars

\* ------------------------------------------------------------ properties
En == enabled_servers(config)
Active == 1..config.total_tiles

\* the state of the file of the t-th tile under server s
FileState(s, t) == IF t \in 1..Len(all_tiles) THEN fs[s][all_tiles[t]] ELSE "none"
IsPrefix(p, q) == Len(p) <= Len(q) /\ \A i \in 1..Len(p) : p[i] = q[i]

\* the enabled servers in the order the configuration lists them
ConfiguredOrder == SelectSeq(config.servers, LAMBDA n : n \in CatalogNames)

\* the result text names server s together with an error
RecordsFailureOf(result, s) == result.server = s /\ result.err # "none"

\* the (server, error) entries a result text carries
Entries(result) ==
    IF result.err = "none" THEN <<>> ELSE <<(<<result.server, result.err>>)>>

\* job t issues a GET in this step
IssuesGet(t) == job[t].pc = "get" /\ job'[t] # job[t]

\* C1: on a second run over the same configuration and output directory, a
\* tile that ended the previous run Downloaded or AlreadyExists causes no
\* network request and ends AlreadyExists.
C1_Idempotence ==
    \A t \in Tiles :
        (run >= 2 /\ prev[t].kind \in {"Downloaded", "Exists"}) =>
            /\ job[t].contacted = <<>>
            /\ job[t].pc = "done" => job[t].result.kind = "Exists"

\* C2: the servers a tile's job contacts are, in order, an initial part of
\* the enabled servers as the configuration's servers list orders them.
C2_FallbackOrder ==
    \A t \in Tiles : IsPrefix(job[t].contacted, ConfiguredOrder)

\* C3: no exception escapes a job; a run that was not interrupted ends
\* without a pending exception, with the completion count at the number of
\* tiles and an outcome for every tile.
C3_FailureContainment ==
    /\ \A t \in Tiles : job[t].pc # "raised"
    /\ (mainpc = "done" /\ ~interrupted /\ total_workers(config) > 0) =>
          /\ exc = "none"
          /\ completed = config.total_tiles
          /\ \A t \in Active : job[t].result # NoResult

C5_NoRetryAfterPermanent ==
    [][\A t \in Tiles :
         ~(job[t].lastErr = "permanent" /\ job[t].attempt > 0 /\ IssuesGet(t))]_vars

\* C6: after a local open or write failure, the job issues no further GET,
\* neither to the same server nor to a later one.
C6_WriteFailureFatal ==
    [][\A t \in Tiles : ~(job[t].lastErr = "io" /\ IssuesGet(t))]_vars

\* C7: a tile file that exists is never empty or partially written.
C7_NoPartialFiles ==
    \A s \in CatalogNames : \A t \in Tiles : FileState(s, t) # "partial"

\* C8: once the interrupt was delivered, no job that has not started
\* executing starts.
C8_Cancellation ==
    [][interrupted =>
         \A t \in Tiles :
            job[t].pc \in {"unsubmitted", "queued"} =>
               job'[t].pc \in {"unsubmitted", "queued"}]_vars

\* C9 (as stated): with enabled servers [A, B], A always failing and B
\* always succeeding, every finished tile is Downloaded(B), its file is
\* under B and not under A, and the outcome records A's failure.
C9_FallbackOutcome ==
    \A t \in Tiles :
        (env = Fallback /\ Len(En) = 2 /\ job[t].pc = "done") =>
            /\ job[t].result.kind = "Downloaded"
            /\ job[t].result.server = En[2]
            /\ FileState(En[2], t) = "full"
            /\ FileState(En[1], t) = "none"
            /\ RecordsFailureOf(job[t].result, En[1])

\* C9 (amended): with enabled servers [A, B], A always failing and B always
\* succeeding, every finished tile is Downloaded(B), its file is under B
\* and not under A, and the outcome names B only and carries no record of
\* A's failure.
C9_FallbackOutcomeAmended ==
    \A t \in Tiles :
        (env = Fallback /\ Len(En) = 2 /\ job[t].pc = "done") =>
            /\ job[t].result = DownloadedResult(En[2])
            /\ job[t].contacted = En
            /\ FileState(En[2], t) = "full"
            /\ FileState(En[1], t) = "none"
            /\ Entries(job[t].result) = <<>>

C9_Witness ==
    /\ env = Fallback
    /\ Len(En) = 2
    /\ config.total_tiles = NumTiles
    /\ mainpc = "done" /\ exc = "none"
    /\ \A t \in Tiles : job[t].result = DownloadedResult(En[2])

\* C10: AllServersFailed is the outcome exactly when every enabled server
\* was tried and failed, and it then carries one (server, error) entry per
\* enabled server, in server order.
C10_AllServersFailed ==
    \A t \in Tiles :
        job[t].pc = "done" =>
            /\ job[t].result.kind = "AllFailed" <=>
                  ~(job[t].result.kind \in {"Downloaded", "Exists"})
            /\ job[t].result.kind = "AllFailed" =>
                  /\ Len(Entries(job[t].result)) = Len(En)
                  /\ \A i \in 1..Len(En) : Entries(job[t].result)[i][1] = En[i]

\* C11: when the first enabled server already holds the tile's file as the
\* tile's job starts, the job ends AlreadyExists for that server in its
\* first step after starting, issues no GET to any server and changes no
\* file; and once a job has ended, no file of its tile changes any more.
C11_ShortCircuit ==
    [][\A t \in Active :
         /\ (job[t].pc = "enter" /\ job[t].si = 1 /\ fs[En[1]][all_tiles[t]] # "none"
                /\ job'[t] # job[t]) =>
               /\ job'[t].pc = "done"
               /\ job'[t].result = ExistsResult(En[1])
               /\ job'[t].contacted = <<>>
               /\ fs' = fs
         /\ job[t].pc = "done" =>
               \A s \in CatalogNames : fs'[s][all_tiles[t]] = fs[s][all_tiles[t]]]_vars

C11_Witness ==
    /\ run = 2
    /\ Len(En) = 2
    /\ job[1].pc = "done"
    /\ job[1].result = ExistsResult(En[1])
    /\ job[1].contacted = <<>>
    /\ FileState(En[1], 1) # "none"
    /\ FileState(En[2], 1) = "none"

\* C12: the number of jobs executing at the same time never exceeds the
\* number of enabled servers (configured names the catalog resolves) times
\* max_workers_per_server.
C12_WorkerBound ==
    RunningCount <= Len(En) * config.max_workers_per_server

\* C13: when the configured servers list resolves to no enabled server, the
\* run does not crash, every tile's outcome is AllServersFailed with no
\* error entry, no GET is issued and no tile file is created.
C13_NoEnabledServers ==
    En = <<>> =>
        /\ exc \notin {"ValueError", "Exception"}
        /\ \A t \in Active :
              /\ job[t].pc # "raised"
              /\ job[t].contacted = <<>>
              /\ job[t].pc = "done" =>
                    job[t].result = AllFailedResult /\ Entries(job[t].result) = <<>>
              /\ \A s \in CatalogNames : FileState(s, t) = "none"
        /\ (mainpc = "done" /\ ~interrupted) =>
              \A t \in Active : job[t].result = AllFailedResult

\* the summary's counters: tiles by the kind of their outcome
Downloaded == Cardinality({t \in Active : job[t].result.kind = "Downloaded"})
Existed == Cardinality({t \in Active : job[t].result.kind = "Exists"})
Failed == Cardinality({t \in Active : job[t].result.kind = "AllFailed"})

\* C14: when a run finishes (download_region leaves the completion loop
\* and the pool without an exception), completed is the number of tiles
\* and downloaded + existed + failed = completed; with a single enabled
\* server that always succeeds and an empty output directory, downloaded is
\* the number of tiles and existed and failed are 0.
C14_SummaryConservation ==
    (mainpc = "done" /\ exc = "none") =>
        /\ completed = config.total_tiles
        /\ Downloaded + Existed + Failed = completed
        /\ (env = Healthy /\ Len(En) = 1 /\ run = 1) =>
              /\ Downloaded = config.total_tiles
              /\ Existed = 0
              /\ Failed = 0

C14_Witness ==
    /\ mainpc = "done" /\ exc = "none"
    /\ env = Healthy /\ Len(En) = 1
    /\ config.total_tiles = NumTiles
    /\ completed = NumTiles
    /\ Downloaded = NumTiles

\* the covering rectangle of the region at one zoom level, from the
\* projections of the bounding box's corners
Rect(zoom) ==
    LET lo == deg2num(region.bbox[2], region.bbox[1], zoom)
        hi == deg2num(region.bbox[4], region.bbox[3], zoom)
    IN [minX |-> lo[1], maxX |-> hi[1], minY |-> hi[2], maxY |-> lo[2]]

ZoomRange == region.min_zoom..region.max_zoom

\* the tiles of all covering rectangles of the region
Covering ==
    UNION {{<<z, x, y>> : x \in Rect(z).minX..Rect(z).maxX,
                          y \in Rect(z).minY..Rect(z).maxY} : z \in ZoomRange}

\* (zoom, x, y) order, strict
LexLess(a, b) ==
    \/ a[1] < b[1]
    \/ a[1] = b[1] /\ a[2] < b[2]
    \/ a[1] = b[1] /\ a[2] = b[2] /\ a[3] < b[3]

\* C15: the list get_tiles_for_bbox returns for a well-formed bounding box
\* holds each tile of every zoom level's covering rectangle exactly once
\* and nothing else, in ascending order of zoom, then x, then y; a zoom
\* level contributes (maxX - minX + 1) * (maxY - minY + 1) tiles; a repeated
\* call with the same arguments returns the same list.
C15_Enumeration ==
    /\ [](calls >= 1 =>
            /\ RangeOf(all_tiles) = Covering
            /\ Len(all_tiles) = Cardinality(Covering)
            /\ \A i \in 1..(Len(all_tiles) - 1) : LexLess(all_tiles[i], all_tiles[i + 1])
            /\ \A z \in ZoomRange :
                  Cardinality({i \in 1..Len(all_tiles) : all_tiles[i][1] = z})
                     = (Rect(z).maxX - Rect(z).minX + 1) * (Rect(z).maxY - Rect(z).minY + 1))
    /\ [][(calls >= 1 /\ calls' = calls + 1) => all_tiles' = all_tiles]_vars

C15_Witness ==
    /\ calls = MaxCalls
    /\ region = [bbox |-> <<-90, -60, 51, 25>>, min_zoom |-> 1, max_zoom |-> 2]
    /\ Len(all_tiles) = 8
    /\ all_tiles[1] = <<1, 0, 0>>
    /\ all_tiles[2] = <<1, 0, 1>>
    /\ all_tiles[8] = <<2, 2, 2>>

\* C16: for a longitude in [-180, 180], the boundary 180 included, and a
\* latitude inside the Web-Mercator range, deg2num returns x and y with
\* 0 <= x < 2^zoom and 0 <= y < 2^zoom.
C16_TileRange ==
    (proj # NoProj /\ proj.lon >= -180 /\ proj.lon <= 180) =>
        /\ 0 <= proj.x /\ proj.x < 2^proj.zoom
        /\ 0 <= proj.y /\ proj.y < 2^proj.zoom

\* the fetch invocation of job j has issued the GET of an attempt after the
\* first and not yet failed again
PastRetry(j) == j.pc \in {"open", "write"} /\ j.attempt >= 1

\* the last fetch invocation of job j returned an error
GaveUp(j) ==
    \/ j.pc = "enter" /\ j.si >= 2
    \/ j.pc = "done" /\ j.result = AllFailedResult /\ En # <<>>

\* C17 (as stated): the time slept between failed attempt k and attempt
\* k + 1 is 1.0 s * k (10 * k tenths), and nothing is slept after the final
\* attempt's failure.
C17_Backoff ==
    \A t \in Active :
        /\ PastRetry(job[t]) => job[t].slept = 10 * job[t].attempt
        /\ GaveUp(job[t]) => job[t].slept = 10 * job[t].attempt

\* C17 (amended): the time slept between failed attempt k and attempt k + 1
\* is 1.0 s after the failure plus 0.5 s * k before the next attempt; after
\* the failure of attempt k the 1.0 s are slept at once unless it was the
\* final attempt, after whose failure nothing is slept.
C17_BackoffAmended ==
    \A t \in Active :
        /\ PastRetry(job[t]) =>
              job[t].slept = SleepAfterError + SleepPerAttempt * job[t].attempt
        /\ (job[t].pc = "get" /\ job[t].attempt >= 1) => job[t].slept = SleepAfterError
        /\ GaveUp(job[t]) =>
              /\ job[t].attempt = config.retry_attempts - 1
              /\ job[t].slept = IF job[t].attempt = 0 THEN 0
                                ELSE SleepAfterError + SleepPerAttempt * job[t].attempt

C17_Witness ==
    /\ meter
    /\ config.retry_attempts = MaxRetryAttempts
    /\ job[1].pc = "done"
    /\ job[1].result = AllFailedResult
    /\ job[1].attempt = MaxRetryAttempts - 1
    /\ job[1].slept = SleepAfterError + SleepPerAttempt * (MaxRetryAttempts - 1)

\* the inner loop of check_existing_tiles: the t-th tile's file exists
\* under some enabled server
FoundInSweep(t) ==
    \E i \in 1..Len(enabled_servers(config)) :
        exists(fs, enabled_servers(config)[i], all_tiles[t])

\* check_existing_tiles(all_tiles, config)
check_existing_tiles == Cardinality({t \in 1..Len(all_tiles) : FoundInSweep(t)})

\* C18: after the run the final existence sweep counts a tile exactly when
\* its outcome was Downloaded or AlreadyExists, and a tile whose outcome was
\* AllServersFailed has no file under any enabled server.
C18_OutcomeAgreement ==
    (mainpc = "done" /\ exc = "none") =>
        /\ \A t \in Active :
              /\ FoundInSweep(t) <=> IsSuccess(job[t].result)
              /\ job[t].result = AllFailedResult =>
                    \A i \in 1..Len(En) : FileState(En[i], t) = "none"
        /\ check_existing_tiles = Downloaded + Existed

\* the run ends
Terminates == <>(mainpc = "done")

\* C19: with every request returning and fair scheduling, every run
\* terminates, and unless the user interrupted it download_region returns
\* (no exception) with one outcome produced for every submitted tile and
\* every outcome consumed once by the completion loop.
C19_Termination ==
    /\ Terminates
    /\ []((mainpc = "done" /\ ~interrupted) =>
            /\ exc = "none"
            /\ completed = config.total_tiles
            /\ consumed = Active
            /\ \A t \in Active : job[t].pc = "done" /\ job[t].result # NoResult)

\* the tile file job t is checking or writing: server and tile coordinate
FileOf(t) == <<CurServer(job[t]), all_tiles[t]>>

\* C20: no two jobs executing at the same time check or write the same
\* (server, zoom, x, y) tile file: the tile list holds no tile twice, and
\* each list entry is one job.
C20_ExclusiveFiles ==
    /\ \A t, u \in 1..Len(all_tiles) : t # u => all_tiles[t] # all_tiles[u]
    /\ \A t, u \in Active :
          (t # u /\ Running(job[t]) /\ Running(job[u])) => FileOf(t) # FileOf(u)

C20_Witness ==
    /\ Len(En) = 2
    /\ job[1].pc = "write" /\ job[2].pc = "write"
    /\ CurServer(job[1]) = CurServer(job[2])
    /\ FileOf(1) # FileOf(2)
    /\ FileState(En[1], 1) = "partial" /\ FileState(En[1], 2) = "partial"
====
